---- MODULE Spec2Model ----
(***************************************************************************)
(* Model of textract_cdk_stack_samples/open_search_workflow.py: the       *)
(* OpenSearchWorkflow stack.  The constructor is modelled statement by    *)
(* statement (SpecBuild); the deployed stack is modelled as the state     *)
(* machine the constructor describes: the S3 notification it configures,  *)
(* the queue and start throttle, and the Step Functions workflow with its *)
(* Map state, retriers and S3 output prefixes (Spec, SpecRetry).          *)
(* Strings whose characters matter (keys, prefixes, URLs) are sequences   *)
(* of one-character strings.                                              *)
(***************************************************************************)
EXTENDS Integers, Sequences, FiniteSets, TLC

VARIABLES bpc, document_queue, colon_joined, queue_url_urlencoded, outputs,
          queue, execs, written, extCreated, extOps, faults

buildVars == <<bpc, document_queue, colon_joined, queue_url_urlencoded, outputs>>
runVars == <<queue, execs, written, extCreated, extOps, faults>>
vars == <<bpc, document_queue, colon_joined, queue_url_urlencoded, outputs,
          queue, execs, written, extCreated, extOps, faults>>

(***************************************************************************)
(* Bounds of the model.                                                    *)
(***************************************************************************)
\* longest queue URL the constructor is run on
MaxLen == 4
\* external S3 operations (puts and deletes) on the document bucket
MaxUploads == 2
\* size of a run: executions started, splits produced and step failures, over
\* all executions
MaxWork == 3

(***************************************************************************)
(* Strings.                                                                *)
(***************************************************************************)
IsPrefix(p, s) == Len(p) <= Len(s) /\ SubSeq(s, 1, Len(p)) = p

RECURSIVE FirstIndex(_, _, _)
\* the least i >= from with s[i] = c, or 0
FirstIndex(c, s, from) ==
    IF from > Len(s) THEN 0
    ELSE IF s[from] = c THEN from
    ELSE FirstIndex(c, s, from + 1)

RECURSIVE FnSplit(_, _)
\* Fn.split(delimiter, source): the substrings of source between delimiters
FnSplit(d, s) ==
    LET i == FirstIndex(d, s, 1)
    IN IF i = 0 THEN <<s>>
       ELSE <<SubSeq(s, 1, i - 1)>> \o FnSplit(d, SubSeq(s, i + 1, Len(s)))

RECURSIVE FnJoin(_, _)
\* Fn.join(delimiter, list): the list's values with the delimiter between them
FnJoin(d, l) ==
    IF l = <<>> THEN <<>>
    ELSE IF Len(l) = 1 THEN l[1]
    ELSE l[1] \o d \o FnJoin(d, Tail(l))

(***************************************************************************)
(* The constructor: names it binds.                                        *)
(***************************************************************************)
s3_upload_prefix == <<"u", "p", "l", "o", "a", "d", "s">>
s3_output_prefix ==
    <<"t", "e", "x", "t", "r", "a", "c", "t", "-", "o", "u", "t", "p", "u", "t">>
s3_opensearch_output_prefix ==
    <<"t", "e", "x", "t", "r", "a", "c", "t", "-", "o", "p", "e", "n", "s", "e",
      "a", "r", "c", "h", "-", "o", "u", "t", "p", "u", "t">>
s3_temp_output_prefix ==
    <<"t", "e", "x", "t", "r", "a", "c", "t", "-", "t", "e", "m", "p">>

\* document_queue is Optional: None is the absent queue
None == [present |-> FALSE, queue_url |-> <<>>]
NoExport == "NoExport"

\* Characters of an SQS queue URL (https://sqs.<region>.amazonaws.com/<account>/<name>):
\* the two the constructor encodes, and letters, digits and '-' for the rest.
UrlChars == {":", "/", "q", "3", "-"}

RECURSIVE StringsUpTo(_)
StringsUpTo(n) ==
    IF n = 0 THEN {<<>>}
    ELSE LET shorter == StringsUpTo(n - 1)
         IN shorter \cup {Append(s, c) : s \in {t \in shorter : Len(t) = n - 1}, c \in UrlChars}

\* sf_executions_start_throttle.document_queue: absent, or a queue with its URL
DocumentQueues == {None} \cup {[present |-> TRUE, queue_url |-> u] : u \in StringsUpTo(MaxLen) \ {<<>>}}

\* a pass that encodes the first separator only
EncodeFirstSeparator(d, code, s) ==
    LET i == FirstIndex(d, s, 1)
    IN IF i = 0 THEN s ELSE SubSeq(s, 1, i - 1) \o code \o SubSeq(s, i + 1, Len(s))

\* the two passes of lines 286-297
EncodeSeparator(d, code, s) == FnJoin(code, FnSplit(d, s))

\* the CfnOutput declarations of lines 299-330, in order
DocumentUploadLocation(enc) ==
    [name |-> "DocumentUploadLocation",
     value |-> [kind |-> "s3-url", id |-> s3_upload_prefix \o <<"/">>],
     export_name |-> "STACK_NAME-DocumentUploadLocation"]
StepFunctionFlowLink(enc) ==
    [name |-> "StepFunctionFlowLink",
     value |-> [kind |-> "states-console", id |-> <<>>],
     export_name |-> NoExport]
DocumentQueueLink(enc) ==
    [name |-> "DocumentQueueLink",
     value |-> [kind |-> "sqs-console", id |-> enc],
     export_name |-> NoExport]
OpenSearchDashboard(enc) ==
    [name |-> "OpenSearchDashboard",
     value |-> [kind |-> "domain-endpoint", id |-> <<>>],
     export_name |-> NoExport]
OpenSearchLink(enc) ==
    [name |-> "OpenSearchLink",
     value |-> [kind |-> "aos-console", id |-> <<>>],
     export_name |-> NoExport]
CognitoUserPoolLink(enc) ==
    [name |-> "CognitoUserPoolLink",
     value |-> [kind |-> "cognito-console", id |-> <<>>],
     export_name |-> NoExport]

\* the declarations with OpenSearchDashboard's pasted over OpenSearchLink
CfnOutputsPasted(enc) ==
    <<DocumentUploadLocation(enc), StepFunctionFlowLink(enc), DocumentQueueLink(enc),
      OpenSearchDashboard(enc), OpenSearchDashboard(enc), CognitoUserPoolLink(enc)>>

CfnOutputs(enc) ==
    <<DocumentUploadLocation(enc), StepFunctionFlowLink(enc), DocumentQueueLink(enc),
      OpenSearchDashboard(enc), OpenSearchLink(enc), CognitoUserPoolLink(enc)>>

(***************************************************************************)
(* The constructor as a state machine.                                     *)
(***************************************************************************)
RunIdle ==
    /\ queue = <<>>
    /\ execs = <<>>
    /\ written = {}
    /\ extCreated = 0
    /\ extOps = 0
    /\ faults = 0

\* line 273: the throttle is created, with or without a document queue
InitBuild ==
    /\ bpc = "throttle"
    /\ document_queue \in DocumentQueues
    /\ colon_joined = <<>>
    /\ queue_url_urlencoded = <<>>
    /\ outputs = <<>>
    /\ RunIdle

\* lines 283-284: queue_url_urlencoded = "" and the test of document_queue
TestQueue ==
    /\ bpc = "throttle"
    /\ queue_url_urlencoded' = <<>>
    /\ bpc' = IF document_queue.present THEN "colons" ELSE "output1"
    /\ UNCHANGED <<document_queue, colon_joined, outputs>>
    /\ UNCHANGED runVars

\* lines 290-295: Fn.join("%3A", Fn.split(":", queue_url))
EncodeColons ==
    /\ bpc = "colons"
    /\ colon_joined' = EncodeSeparator(":", <<"%", "3", "A">>, document_queue.queue_url)
    /\ bpc' = "slashes"
    /\ UNCHANGED <<document_queue, queue_url_urlencoded, outputs>>
    /\ UNCHANGED runVars

\* lines 286-297: Fn.join("%2F", Fn.split("/", ...))
EncodeSlashes ==
    /\ bpc = "slashes"
    /\ queue_url_urlencoded' = EncodeSeparator("/", <<"%", "2", "F">>, colon_joined)
    /\ bpc' = "output1"
    /\ UNCHANGED <<document_queue, colon_joined, outputs>>
    /\ UNCHANGED runVars

OutputSteps == <<"output1", "output2", "output3", "output4", "output5", "output6", "done">>

\* lines 299-330: the i-th CfnOutput
DeclareOutput ==
    \E i \in 1..6 :
        /\ bpc = OutputSteps[i]
        /\ outputs' = Append(outputs, CfnOutputs(queue_url_urlencoded)[i])
        /\ bpc' = OutputSteps[i + 1]
        /\ UNCHANGED <<document_queue, colon_joined, queue_url_urlencoded>>
        /\ UNCHANGED runVars

NextBuild == TestQueue \/ EncodeColons \/ EncodeSlashes \/ DeclareOutput

SpecBuild == InitBuild /\ [][NextBuild]_vars

(***************************************************************************)
(* Properties of the constructor.                                          *)
(***************************************************************************)
OutputNames == {outputs[i].name : i \in 1..Len(outputs)}
SixOutputs ==
    {"DocumentUploadLocation", "StepFunctionFlowLink", "DocumentQueueLink",
     "OpenSearchDashboard", "OpenSearchLink", "CognitoUserPoolLink"}

\* C5 as stated: once the constructor has run, the outputs are exactly the six
\* named ones, each declared, and every one of them carries an export.
C5_AllSixExported ==
    bpc = "done" =>
        /\ OutputNames = SixOutputs
        /\ Len(outputs) = 6
        /\ \A i \in 1..Len(outputs) : outputs[i].export_name # NoExport

\* C5 amended: once the constructor has run, whatever the throttle's queue, the
\* outputs are exactly the six named ones, each declared once, and exactly one of
\* them, DocumentUploadLocation, carries an export name.
C5_SixOutputsOneExported ==
    bpc = "done" =>
        /\ OutputNames = SixOutputs
        /\ Len(outputs) = 6
        /\ \A i \in 1..Len(outputs) :
              (outputs[i].export_name # NoExport) <=> (outputs[i].name = "DocumentUploadLocation")

C5_Witness ==
    /\ bpc = "done"
    /\ Len(outputs) = 6
    /\ \E i \in 1..Len(outputs) : outputs[i].export_name # NoExport
    /\ \E i \in 1..Len(outputs) : outputs[i].export_name = NoExport

RECURSIVE ReplaceReserved(_)
\* s with every ':' replaced by "%3A" and every '/' by "%2F", character by character
ReplaceReserved(s) ==
    IF s = <<>> THEN <<>>
    ELSE (CASE Head(s) = ":" -> <<"%", "3", "A">>
            [] Head(s) = "/" -> <<"%", "2", "F">>
            [] OTHER -> <<Head(s)>>) \o ReplaceReserved(Tail(s))

RECURSIVE PercentDecode(_)
\* s with every "%3A" decoded to ':' and every "%2F" to '/', left to right
PercentDecode(s) ==
    IF s = <<>> THEN <<>>
    ELSE IF IsPrefix(<<"%", "3", "A">>, s) THEN <<":">> \o PercentDecode(SubSeq(s, 4, Len(s)))
    ELSE IF IsPrefix(<<"%", "2", "F">>, s) THEN <<"/">> \o PercentDecode(SubSeq(s, 4, Len(s)))
    ELSE <<Head(s)>> \o PercentDecode(Tail(s))

Chars(s) == {s[i] : i \in 1..Len(s)}

\* C7: the identifier in the DocumentQueueLink output is the queue URL with every
\* ':' replaced by "%3A" and every '/' by "%2F" and nothing else changed; it holds
\* no ':' and no '/', decoding it gives back the queue URL, and it is empty when
\* the throttle has no document queue.
C7_QueueUrlEncoded ==
    \A i \in 1..Len(outputs) :
        outputs[i].name = "DocumentQueueLink" =>
            LET id == outputs[i].value.id
            IN IF document_queue.present
               THEN /\ id = ReplaceReserved(document_queue.queue_url)
                    /\ ":" \notin Chars(id)
                    /\ "/" \notin Chars(id)
                    /\ PercentDecode(id) = document_queue.queue_url
               ELSE id = <<>>

C7_Witness ==
    /\ bpc = "done"
    /\ document_queue.present
    /\ {":", "/"} \subseteq Chars(document_queue.queue_url)
    /\ FirstIndex(":", document_queue.queue_url, FirstIndex(":", document_queue.queue_url, 1) + 1) > 0
    /\ \E i \in 1..Len(outputs) :
          outputs[i].name = "DocumentQueueLink" /\ Len(outputs[i].value.id) > Len(document_queue.queue_url)

(***************************************************************************)
(* The deployed stack: what the constructor configures.                    *)
(***************************************************************************)
\* lines 46-50: the notification's event types and key filter
OBJECT_CREATED == "s3:ObjectCreated:*"
OBJECT_REMOVED == "s3:ObjectRemoved:*"
EventTypes == {OBJECT_CREATED, OBJECT_REMOVED}
s3_event_source == [events |-> {OBJECT_CREATED}, prefix |-> s3_upload_prefix]

\* lines 273-281
executions_concurrency_threshold == 550
sqs_batch == 10
throttle_event_source == s3_event_source

\* whether the notification delivers an event to the throttle's queue
Matches(ev) ==
    /\ ev.event_type \in throttle_event_source.events
    /\ IsPrefix(throttle_event_source.prefix, ev.key)

\* the steps, by the ids the constructor gives them
Decider == "OpenSearchWorkflow-Decider"
DocumentSplitter == "DocumentSplitter"
MapState == "Map State"
TextractAsync == "TextractAsync"
TextractAsyncToJSON == "TextractAsyncToJSON2"
SetMetaData == "SetMetaData"
GenerateOpenSearchBatch == "GenerateOpenSearchBatch"
OpenSearchPushInvoke == "OpenSearchPushInvoke"
TaskOpenSearchMapping == "TaskOpenSearchMapping"
End == "End"

\* a.next(b).next(c): each state's transition to the one chained after it
ChainLinks(chain) == {<<chain[i], chain[i + 1]>> : i \in 1..(Len(chain) - 1)}

\* lines 236-242, and the iterator of line 262 (it starts where async_chain does)
async_chain == <<TextractAsync, TextractAsyncToJSON>>
\* the iterator with the metadata step left out of the chain
IteratorLinksNoMetaData ==
    ChainLinks(async_chain)
        \cup ChainLinks(<<TextractAsyncToJSON, GenerateOpenSearchBatch>>)
        \cup ChainLinks(<<GenerateOpenSearchBatch, OpenSearchPushInvoke, TaskOpenSearchMapping>>)
IteratorLinks ==
    ChainLinks(async_chain)
        \cup ChainLinks(<<TextractAsyncToJSON, SetMetaData, GenerateOpenSearchBatch>>)
        \cup ChainLinks(<<GenerateOpenSearchBatch, OpenSearchPushInvoke, TaskOpenSearchMapping>>)
IteratorStart == async_chain[1]

\* lines 264-266
workflow_chain == <<Decider, DocumentSplitter, MapState>>
WorkflowLinks == ChainLinks(workflow_chain)
WorkflowStart == workflow_chain[1]

NextState(links, s) ==
    IF \E l \in links : l[1] = s THEN (CHOOSE l \in links : l[1] = s)[2] ELSE End

\* the splitter configured to write beside the uploads
OutputPrefixBesideUploads(step) ==
    CASE step = DocumentSplitter -> s3_upload_prefix \o <<"-", "s", "p", "l", "i", "t">>
      [] step = TextractAsync -> s3_temp_output_prefix
      [] step = TextractAsyncToJSON -> s3_output_prefix
      [] step = GenerateOpenSearchBatch -> s3_opensearch_output_prefix
      [] OTHER -> <<>>
\* The S3 prefix each step is configured to write under (lines 72, 83, 103, 113).
\* The three Lambda functions of lines 130-233 are granted no write to the bucket.
OutputPrefix(step) ==
    CASE step = DocumentSplitter -> s3_output_prefix
      [] step = TextractAsync -> s3_temp_output_prefix
      [] step = TextractAsyncToJSON -> s3_output_prefix
      [] step = GenerateOpenSearchBatch -> s3_opensearch_output_prefix
      [] OTHER -> <<>>
WritingSteps == {DocumentSplitter, TextractAsync, TextractAsyncToJSON, GenerateOpenSearchBatch}

(***************************************************************************)
(* Retriers (lines 152-164, 197-207, 223-233).                             *)
(***************************************************************************)
TooManyRequests == "Lambda.TooManyRequestsException"
OpenSearchConnectionTimeout == "OpenSearchConnectionTimeout"
LambdaServiceException == "Lambda.ServiceException"
StatesTimeout == "States.Timeout"
NoError == "NoError"
Errors == {TooManyRequests, OpenSearchConnectionTimeout, LambdaServiceException, StatesTimeout}

\* tasks.LambdaInvoke is given no retry_on_service_exceptions, so each of the three
\* invoke steps keeps the retrier LambdaInvoke adds by default, ahead of add_retry's:
\* the Lambda service exceptions, 6 attempts.
LambdaServiceExceptions ==
    {LambdaServiceException, "Lambda.AWSLambdaException", "Lambda.SdkClientException",
     "Lambda.ClientExecutionTimeoutException"}
service_retry_max_attempts == 6
ServiceRetrier == [errors |-> LambdaServiceExceptions, max_attempts |-> service_retry_max_attempts]

push_max_attempts == 100000
mapping_max_attempts == 100000
set_meta_data_max_attempts == 10000

\* the retriers with OpenSearchPushInvoke's error list given to SetMetaData too
RetriersPasted(step) ==
    CASE step = OpenSearchPushInvoke ->
           <<ServiceRetrier,
             [errors |-> {TooManyRequests, OpenSearchConnectionTimeout},
              max_attempts |-> push_max_attempts]>>
      [] step = TaskOpenSearchMapping ->
           <<ServiceRetrier,
             [errors |-> {TooManyRequests}, max_attempts |-> mapping_max_attempts]>>
      [] step = SetMetaData ->
           <<ServiceRetrier,
             [errors |-> {TooManyRequests, OpenSearchConnectionTimeout},
              max_attempts |-> set_meta_data_max_attempts]>>
      [] OTHER -> <<>>

\* each step's Retry field, in order
Retriers(step) ==
    CASE step = OpenSearchPushInvoke ->
           <<ServiceRetrier,
             [errors |-> {TooManyRequests, OpenSearchConnectionTimeout},
              max_attempts |-> push_max_attempts]>>
      [] step = TaskOpenSearchMapping ->
           <<ServiceRetrier,
             [errors |-> {TooManyRequests}, max_attempts |-> mapping_max_attempts]>>
      [] step = SetMetaData ->
           <<ServiceRetrier,
             [errors |-> {TooManyRequests}, max_attempts |-> set_meta_data_max_attempts]>>
      [] OTHER -> <<>>

LambdaInvokeSteps == {SetMetaData, OpenSearchPushInvoke, TaskOpenSearchMapping}

\* Step Functions: the first retrier whose ErrorEquals holds the error, or 0
MatchingRetrier(step, err) ==
    LET rs == Retriers(step)
        hits == {r \in 1..Len(rs) : err \in rs[r].errors}
    IN IF hits = {} THEN 0 ELSE CHOOSE r \in hits : \A q \in hits : r <= q

\* Step Functions: the error is retried while its retrier has attempts left
CanRetry(step, err, attempts) ==
    LET r == MatchingRetrier(step, err)
    IN r # 0 /\ attempts[r] < Retriers(step)[r].max_attempts

ZeroAttempts(step) == [r \in 1..Len(Retriers(step)) |-> 0]

(***************************************************************************)
(* The Map state (lines 244-262).                                          *)
(***************************************************************************)
RECURSIVE StatesFormat(_, _)
\* States.Format(template, args...): each {} replaced by the next argument
StatesFormat(t, args) ==
    IF t = <<>> THEN <<>>
    ELSE IF IsPrefix(<<"{", "}">>, t)
         THEN Head(args) \o StatesFormat(SubSeq(t, 3, Len(t)), Tail(args))
         ELSE <<Head(t)>> \o StatesFormat(Tail(t), args)

s3PathTemplate == <<"s", "3", ":", "/", "/", "{", "}", "/", "{", "}", "/", "{", "}">>

\* the parameters with the first two arguments of States.Format exchanged
MapParametersSwapped(input, item) ==
    [manifest |->
        [s3Path |-> StatesFormat(s3PathTemplate,
                        <<input.documentSplitterS3OutputPath,
                          input.documentSplitterS3OutputBucket, item>>)],
     mime |-> input.mime,
     originFileURI |-> input.originFileURI]

\* parameters: the input of one iteration, from the Map state's input and the item
MapParameters(input, item) ==
    [manifest |->
        [s3Path |-> StatesFormat(s3PathTemplate,
                        <<input.documentSplitterS3OutputBucket,
                          input.documentSplitterS3OutputPath, item>>)],
     mime |-> input.mime,
     originFileURI |-> input.originFileURI]

\* items_path: one iteration per element of $.pages, in its order
MapItems(input) == input.pages

NewIteration(input, item) ==
    [item |-> item,
     params |-> MapParameters(input, item),
     pc |-> IteratorStart,
     done |-> <<>>,
     attempts |-> ZeroAttempts(IteratorStart),
     cause |-> [error |-> NoError, retries |-> 0]]

(***************************************************************************)
(* The deployed stack as a state machine.                                  *)
(***************************************************************************)
Succeeded == "Succeeded"
Failed == "Failed"

\* inputs: the keys outside clients put or delete, the decider's mime types, the
\* splitter's file names
bucket_name == <<"b">>
KeyUnderUploads == s3_upload_prefix \o <<"/", "a">>
KeyBesideUploads == s3_upload_prefix \o <<"2", "/", "a">>
KeyElsewhere == <<"d", "/", "a">>
ExternalKeys == {KeyUnderUploads, KeyBesideUploads, KeyElsewhere}
Mimes == {"application/pdf", "image/tiff"}
PageNames == {<<"p">>, <<"q">>}
SplitterOutputPath == s3_output_prefix \o <<"/", "d">>

ObjectKey(step, name) == OutputPrefix(step) \o <<"/">> \o name

RECURSIVE Deliver(_, _)
\* S3 sends each event that passes the notification's filter to the queue
Deliver(q, evs) ==
    IF evs = <<>> THEN q
    ELSE Deliver(IF Matches(Head(evs)) THEN Append(q, Head(evs)) ELSE q, Tail(evs))

\* the object-created events of a step's writes
Created(keys) ==
    [i \in 1..Len(keys) |-> [event_type |-> OBJECT_CREATED, key |-> keys[i], external |-> FALSE]]

Range(f) == {f[i] : i \in DOMAIN f}

RECURSIVE PagesUpTo(_)
PagesUpTo(e) == IF e = 0 THEN 0 ELSE Len(execs[e].input.pages) + PagesUpTo(e - 1)
PagesUsed == PagesUpTo(Len(execs))

Work == Len(execs) + PagesUsed + faults

Running == Cardinality({e \in 1..Len(execs) : execs[e].phase \notin {Succeeded, Failed}})

NewExecution(ev) ==
    [trigger |-> ev,
     phase |-> WorkflowStart,
     done |-> <<>>,
     input |-> [mime |-> "",
                originFileURI |-> ev.key,
                documentSplitterS3OutputBucket |-> <<>>,
                documentSplitterS3OutputPath |-> <<>>,
                pages |-> <<>>],
     mapped |-> FALSE,
     iters |-> <<>>]

Deployed ==
    /\ bpc = "done"
    /\ document_queue = [present |-> TRUE, queue_url |-> <<"q">>]
    /\ colon_joined = <<"q">>
    /\ queue_url_urlencoded = <<"q">>
    /\ outputs = CfnOutputs(<<"q">>)

Init ==
    /\ Deployed
    /\ RunIdle

\* an outside client puts or deletes an object of the document bucket
ExternalS3Event ==
    \E t \in EventTypes, k \in ExternalKeys :
        /\ extOps < MaxUploads
        /\ extOps' = extOps + 1
        /\ extCreated' = IF t = OBJECT_CREATED THEN extCreated + 1 ELSE extCreated
        /\ queue' = Deliver(queue, <<[event_type |-> t, key |-> k, external |-> TRUE]>>)
        /\ UNCHANGED <<execs, written, faults>>
        /\ UNCHANGED buildVars

\* lines 273-281: the throttle takes a batch of the queue's messages and starts an
\* execution of the state machine for each, within the configured concurrency
ThrottleStart ==
    \E n \in 1..sqs_batch :
        /\ n <= Len(queue)
        /\ Work + n <= MaxWork
        /\ Running + n <= executions_concurrency_threshold
        /\ execs' = execs \o [i \in 1..n |-> NewExecution(queue[i])]
        /\ queue' = SubSeq(queue, n + 1, Len(queue))
        /\ UNCHANGED <<written, extCreated, extOps, faults>>
        /\ UNCHANGED buildVars

\* the decider completes: it has found the document's mime type
DeciderDone ==
    \E e \in 1..Len(execs), m \in Mimes :
        /\ execs[e].phase = Decider
        /\ execs' = [execs EXCEPT ![e].phase = NextState(WorkflowLinks, Decider),
                                  ![e].done = Append(@, Decider),
                                  ![e].input.mime = m]
        /\ UNCHANGED <<queue, written, extCreated, extOps, faults>>
        /\ UNCHANGED buildVars

\* the splitter completes: it has written the splits under its output prefix and
\* returns their names in $.pages
SplitterDone ==
    \E e \in 1..Len(execs), n \in 0..MaxWork :
        \E pages \in [1..n -> PageNames] :
            LET keys == [i \in 1..n |-> ObjectKey(DocumentSplitter, pages[i])]
            IN /\ execs[e].phase = DocumentSplitter
               /\ Work + n <= MaxWork
               /\ execs' = [execs EXCEPT
                              ![e].phase = NextState(WorkflowLinks, DocumentSplitter),
                              ![e].done = Append(@, DocumentSplitter),
                              ![e].input.documentSplitterS3OutputBucket = bucket_name,
                              ![e].input.documentSplitterS3OutputPath = SplitterOutputPath,
                              ![e].input.pages = pages]
               /\ written' = written \cup Range(keys)
               /\ queue' = Deliver(queue, Created(keys))
               /\ UNCHANGED <<extCreated, extOps, faults>>
               /\ UNCHANGED buildVars

\* the Map state is entered: one iteration per item, each with its parameters
MapEnter ==
    \E e \in 1..Len(execs) :
        /\ execs[e].phase = MapState
        /\ ~execs[e].mapped
        /\ execs' = [execs EXCEPT
                       ![e].mapped = TRUE,
                       ![e].iters = [i \in 1..Len(MapItems(execs[e].input)) |->
                                       NewIteration(execs[e].input, MapItems(execs[e].input)[i])]]
        /\ UNCHANGED <<queue, written, extCreated, extOps, faults>>
        /\ UNCHANGED buildVars

Active(e, i) ==
    /\ execs[e].phase = MapState
    /\ execs[e].mapped
    /\ execs[e].iters[i].pc \notin {Succeeded, Failed}

\* a step of an iteration completes: its output is written, and the iteration
\* moves to the state chained after it
StepDone ==
    \E e \in 1..Len(execs) :
        \E i \in 1..Len(execs[e].iters) :
            LET it == execs[e].iters[i]
                next == NextState(IteratorLinks, it.pc)
                to == IF next = End THEN Succeeded ELSE next
                keys == IF it.pc \in WritingSteps THEN <<ObjectKey(it.pc, it.item)>> ELSE <<>>
            IN /\ Active(e, i)
               /\ execs' = [execs EXCEPT ![e].iters[i].pc = to,
                                         ![e].iters[i].done = Append(@, it.pc),
                                         ![e].iters[i].attempts = ZeroAttempts(to)]
               /\ written' = written \cup Range(keys)
               /\ queue' = Deliver(queue, Created(keys))
               /\ UNCHANGED <<extCreated, extOps, faults>>
               /\ UNCHANGED buildVars

\* a step of iteration i of execution e fails with err: Step Functions retries it
\* if a retrier of the step allows, and otherwise fails the iteration, the Map
\* state and, no state having a Catch, the execution.  A failed iteration keeps
\* the error and the retries its retrier had made.
Fail(e, i, err) ==
    LET it == execs[e].iters[i]
        r == MatchingRetrier(it.pc, err)
    IN /\ Active(e, i)
       /\ execs' = IF CanRetry(it.pc, err, it.attempts)
                   THEN [execs EXCEPT ![e].iters[i].attempts[r] = @ + 1]
                   ELSE [execs EXCEPT
                           ![e].iters[i].pc = Failed,
                           ![e].iters[i].cause =
                               [error |-> err,
                                retries |-> IF r = 0 THEN 0 ELSE it.attempts[r]],
                           ![e].iters[i].attempts = ZeroAttempts(Failed),
                           ![e].phase = Failed]
       /\ UNCHANGED <<queue, written, extCreated, extOps>>
       /\ UNCHANGED buildVars

StepError ==
    \E e \in 1..Len(execs) :
        \E i \in 1..Len(execs[e].iters), err \in Errors :
            /\ Work < MaxWork
            /\ faults' = faults + 1
            /\ Fail(e, i, err)

\* the decider (the document is of no valid format) or the splitter fails
TopStepError ==
    \E e \in 1..Len(execs) :
        /\ execs[e].phase \in {Decider, DocumentSplitter}
        /\ Work < MaxWork
        /\ faults' = faults + 1
        /\ execs' = [execs EXCEPT ![e].phase = Failed]
        /\ UNCHANGED <<queue, written, extCreated, extOps>>
        /\ UNCHANGED buildVars

\* the Map state completes when every iteration has
MapExit ==
    \E e \in 1..Len(execs) :
        LET next == NextState(WorkflowLinks, MapState)
        IN /\ execs[e].phase = MapState
           /\ execs[e].mapped
           /\ \A i \in 1..Len(execs[e].iters) : execs[e].iters[i].pc = Succeeded
           /\ execs' = [execs EXCEPT ![e].phase = IF next = End THEN Succeeded ELSE next,
                                     ![e].done = Append(@, MapState)]
           /\ UNCHANGED <<queue, written, extCreated, extOps, faults>>
           /\ UNCHANGED buildVars

Next ==
    \/ ExternalS3Event
    \/ ThrottleStart
    \/ DeciderDone
    \/ SplitterDone
    \/ MapEnter
    \/ StepDone
    \/ StepError
    \/ TopStepError
    \/ MapExit

Spec == Init /\ [][Next]_vars

(***************************************************************************)
(* One invoke step under failures without bound: the state in which an     *)
(* execution started by an upload has one iteration at the step.           *)
(***************************************************************************)
RECURSIVE StepsBefore(_, _)
StepsBefore(step, from) ==
    IF from = step \/ from = End THEN <<>>
    ELSE <<from>> \o StepsBefore(step, NextState(IteratorLinks, from))

InitRetry ==
    \E step \in LambdaInvokeSteps :
        LET m == "application/pdf"
            p == <<"p">>
            ev == [event_type |-> OBJECT_CREATED, key |-> KeyUnderUploads, external |-> TRUE]
            input == [mime |-> m,
                      originFileURI |-> ev.key,
                      documentSplitterS3OutputBucket |-> bucket_name,
                      documentSplitterS3OutputPath |-> SplitterOutputPath,
                      pages |-> <<p>>]
            before == StepsBefore(step, IteratorStart)
        IN /\ Deployed
           /\ queue = <<>>
           /\ execs = <<[trigger |-> ev,
                         phase |-> MapState,
                         done |-> <<Decider, DocumentSplitter>>,
                         input |-> input,
                         mapped |-> TRUE,
                         iters |-> <<[NewIteration(input, p) EXCEPT
                                        !.pc = step,
                                        !.done = before,
                                        !.attempts = ZeroAttempts(step)]>>]>>
           /\ written = {ObjectKey(DocumentSplitter, p)}
                            \cup {ObjectKey(s, p) : s \in Range(before) \cap WritingSteps}
           /\ extCreated = 1
           /\ extOps = 1
           /\ faults = 0

\* a step fails, as often as the environment makes it
StepFailure ==
    \E e \in 1..Len(execs) :
        \E i \in 1..Len(execs[e].iters), err \in Errors :
            /\ Fail(e, i, err)
            /\ UNCHANGED faults

NextRetry == StepFailure \/ StepDone \/ MapExit

SpecRetry == InitRetry /\ [][NextRetry]_vars

(***************************************************************************)
(* Properties of the deployed stack.                                       *)
(***************************************************************************)
IsPrefixOf(p, s) == Len(p) <= Len(s) /\ \A k \in 1..Len(p) : p[k] = s[k]
Count(x, seq) == Cardinality({k \in 1..Len(seq) : seq[k] = x})
Iterations == {<<e, i>> \in (1..Len(execs)) \X (1..MaxWork + 1) : i <= Len(execs[e].iters)}
IterationAt(ei) == execs[ei[1]].iters[ei[2]]

C1_WorkflowOrder == <<"OpenSearchWorkflow-Decider", "DocumentSplitter", "Map State">>
C1_IterationOrder ==
    <<"TextractAsync", "TextractAsyncToJSON2", "SetMetaData", "GenerateOpenSearchBatch",
      "OpenSearchPushInvoke", "TaskOpenSearchMapping">>

\* the steps completed are the first ones of the order, and the step at hand is
\* the one after them
InOrder(order, done, at) ==
    /\ IsPrefixOf(done, order)
    /\ at = Succeeded => done = order
    /\ at \notin {Succeeded, Failed} => Len(done) < Len(order) /\ at = order[Len(done) + 1]

\* C1: in every execution the steps run in the order decider, splitter, Map state,
\* and in every iteration in the order TextractAsync, TextractAsyncToJSON,
\* SetMetaData, GenerateOpenSearchBatch, OpenSearchPushInvoke,
\* TaskOpenSearchMapping: the step at hand is the one after the steps completed,
\* which are the first ones of the order with none left out, an iteration exists
\* only once decider and splitter have completed, and an execution or iteration
\* that succeeded has completed every step.
C1_StepsInOrder ==
    /\ \A e \in 1..Len(execs) :
         /\ InOrder(C1_WorkflowOrder, execs[e].done, execs[e].phase)
         /\ execs[e].iters # <<>> => IsPrefixOf(<<C1_WorkflowOrder[1], C1_WorkflowOrder[2]>>, execs[e].done)
         /\ execs[e].phase = Succeeded =>
              \A i \in 1..Len(execs[e].iters) : execs[e].iters[i].pc = Succeeded
    /\ \A ei \in Iterations :
         InOrder(C1_IterationOrder, IterationAt(ei).done, IterationAt(ei).pc)

C1_Witness ==
    \E e \in 1..Len(execs) :
        /\ execs[e].phase = Succeeded
        /\ Len(execs[e].iters) = 2
        /\ \A i \in 1..2 : execs[e].iters[i].done = C1_IterationOrder

\* C4 as stated: every execution was started by an object-created event whose key
\* lies under the location the DocumentUploadLocation output advertises.
C4_StartedUnderUploadLocation ==
    \A e \in 1..Len(execs) :
        /\ execs[e].trigger.event_type = OBJECT_CREATED
        /\ \E o \in 1..Len(outputs) :
             /\ outputs[o].name = "DocumentUploadLocation"
             /\ IsPrefixOf(outputs[o].value.id, execs[e].trigger.key)

\* C6: the Map state runs one iteration per element of $.pages, in its order; the
\* iteration for element p receives manifest.s3Path = 's3://' + bucket + '/' + path
\* + '/' + p and the mime and originFileURI of the Map state's input; no iteration
\* generates more than one bulk or makes more than one push, an execution that
\* succeeded has generated one bulk and made one push per element, and an empty
\* $.pages gives no iteration, so no bulk and no push.
C6_OneIterationPerPage ==
    \A e \in 1..Len(execs) :
        LET x == execs[e]
        IN /\ ~x.mapped => x.iters = <<>>
           /\ x.mapped =>
                /\ Len(x.iters) = Len(x.input.pages)
                /\ \A i \in 1..Len(x.iters) :
                     LET it == x.iters[i]
                     IN /\ it.item = x.input.pages[i]
                        /\ it.params.manifest.s3Path =
                             <<"s", "3", ":", "/", "/">> \o x.input.documentSplitterS3OutputBucket
                                \o <<"/">> \o x.input.documentSplitterS3OutputPath
                                \o <<"/">> \o x.input.pages[i]
                        /\ it.params.mime = x.input.mime
                        /\ it.params.originFileURI = x.input.originFileURI
                        /\ Count("GenerateOpenSearchBatch", it.done) <= 1
                        /\ Count("OpenSearchPushInvoke", it.done) <= 1
                        /\ x.phase = Succeeded =>
                             /\ Count("GenerateOpenSearchBatch", it.done) = 1
                             /\ Count("OpenSearchPushInvoke", it.done) = 1

C6_Witness ==
    \E e \in 1..Len(execs) :
        /\ execs[e].phase = Succeeded
        /\ Len(execs[e].input.pages) = 2
        /\ execs[e].input.pages[1] # execs[e].input.pages[2]
        /\ Len(execs[e].iters) = 2
        /\ execs[e].iters[1].params.manifest.s3Path # execs[e].iters[2].params.manifest.s3Path

C8_OutputPrefixes ==
    {<<"t", "e", "x", "t", "r", "a", "c", "t", "-", "o", "u", "t", "p", "u", "t">>,
     <<"t", "e", "x", "t", "r", "a", "c", "t", "-", "o", "p", "e", "n", "s", "e",
       "a", "r", "c", "h", "-", "o", "u", "t", "p", "u", "t">>,
     <<"t", "e", "x", "t", "r", "a", "c", "t", "-", "t", "e", "m", "p">>}

\* C8: every object a workflow step writes lies under textract-output,
\* textract-opensearch-output or textract-temp and does not pass the trigger's
\* filter (prefix 'uploads'); every execution was started by an event from outside
\* the workflow, and the executions started are at most the object-created events
\* from outside.
C8_NoSelfTrigger ==
    /\ \A k \in written :
         /\ \E p \in C8_OutputPrefixes : IsPrefixOf(p \o <<"/">>, k)
         /\ ~IsPrefixOf(<<"u", "p", "l", "o", "a", "d", "s">>, k)
    /\ \A e \in 1..Len(execs) : execs[e].trigger.external
    /\ \A m \in 1..Len(queue) : queue[m].external
    /\ Len(execs) <= extCreated

C8_Witness ==
    /\ \E e \in 1..Len(execs) : execs[e].phase = Succeeded /\ Len(execs[e].iters) >= 1
    /\ \A p \in C8_OutputPrefixes : \E k \in written : IsPrefixOf(p \o <<"/">>, k)
    /\ queue = <<>>
    /\ Len(execs) = extCreated

(***************************************************************************)
(* Properties of the retriers.                                             *)
(***************************************************************************)
C3_Listed(step) ==
    CASE step = "SetMetaData" -> {"Lambda.TooManyRequestsException"}
      [] step = "TaskOpenSearchMapping" -> {"Lambda.TooManyRequestsException"}
      [] step = "OpenSearchPushInvoke" ->
           {"Lambda.TooManyRequestsException", "OpenSearchConnectionTimeout"}
      [] OTHER -> {}
C3_Ceiling(step) ==
    CASE step = "SetMetaData" -> 10000
      [] step = "TaskOpenSearchMapping" -> 100000
      [] step = "OpenSearchPushInvoke" -> 100000
      [] OTHER -> 0
C3_ServiceExceptions ==
    {"Lambda.ServiceException", "Lambda.AWSLambdaException", "Lambda.SdkClientException",
     "Lambda.ClientExecutionTimeoutException"}
C3_InvokeSteps == {"SetMetaData", "TaskOpenSearchMapping", "OpenSearchPushInvoke"}

\* the retries the step at hand has had on errors of the set (a retrier counts for
\* the set when it retries one of its errors)
RetriesOn(it, errs) ==
    LET rs == Retriers(it.pc)
        Sum[r \in 0..Len(rs)] ==
            IF r = 0 THEN 0
            ELSE Sum[r - 1] + (IF rs[r].errors \cap errs # {} THEN it.attempts[r] ELSE 0)
    IN Sum[Len(rs)]
RetriesOutside(it, errs) ==
    LET rs == Retriers(it.pc)
        Sum[r \in 0..Len(rs)] ==
            IF r = 0 THEN 0
            ELSE Sum[r - 1] + (IF rs[r].errors \subseteq errs THEN 0 ELSE it.attempts[r])
    IN Sum[Len(rs)]
\* the step a failed iteration failed at
FailedAt(it) == C1_IterationOrder[Len(it.done) + 1]

\* C3 as stated: an invoke step is retried on its listed errors only, at most its
\* ceiling times, and an iteration fails at it only on an error that is not listed
\* or with the ceiling used up.
C3_RetriesOnListedOnly ==
    \A ei \in Iterations :
        LET it == IterationAt(ei)
        IN /\ it.pc \in C3_InvokeSteps =>
                /\ RetriesOutside(it, C3_Listed(it.pc)) = 0
                /\ RetriesOn(it, C3_Listed(it.pc)) <= C3_Ceiling(it.pc)
           /\ (it.pc = Failed /\ FailedAt(it) \in C3_InvokeSteps) =>
                /\ execs[ei[1]].phase = Failed
                /\ \/ it.cause.error \notin C3_Listed(FailedAt(it))
                   \/ it.cause.retries = C3_Ceiling(FailedAt(it))

\* C3 amended: an invoke step is retried on its listed errors, at most its ceiling
\* times (SetMetaData 10000, TaskOpenSearchMapping 100000, OpenSearchPushInvoke
\* 100000), and on the Lambda service exceptions that LambdaInvoke retries by
\* default, at most 6 times, and on nothing else; an iteration fails at it only on
\* an error of neither list or with the ceiling of the error's list used up, and
\* its failure fails the execution: no state catches it.
C3_RetriesWithinCeilings ==
    \A ei \in Iterations :
        LET it == IterationAt(ei)
        IN /\ it.pc \in C3_InvokeSteps =>
                /\ RetriesOutside(it, C3_Listed(it.pc) \cup C3_ServiceExceptions) = 0
                /\ RetriesOn(it, C3_Listed(it.pc)) <= C3_Ceiling(it.pc)
                /\ RetriesOn(it, C3_ServiceExceptions) <= 6
                /\ RetriesOn(it, Errors \ (C3_Listed(it.pc) \cup C3_ServiceExceptions)) = 0
           /\ (it.pc = Failed /\ FailedAt(it) \in C3_InvokeSteps) =>
                /\ execs[ei[1]].phase = Failed
                /\ MapState \notin Range(execs[ei[1]].done)
                /\ \/ it.cause.error \notin C3_Listed(FailedAt(it)) \cup C3_ServiceExceptions
                   \/ /\ it.cause.error \in C3_Listed(FailedAt(it))
                      /\ it.cause.retries = C3_Ceiling(FailedAt(it))
                   \/ /\ it.cause.error \in C3_ServiceExceptions
                      /\ it.cause.retries = 6

C3_Witness ==
    \E ei \in Iterations :
        /\ IterationAt(ei).pc = Failed
        /\ FailedAt(IterationAt(ei)) = "SetMetaData"
        /\ IterationAt(ei).cause = [error |-> "Lambda.TooManyRequestsException", retries |-> 10000]

====
